---- MODULE Spec2Model ----
(***************************************************************************)
(* Model of api/generateCaption.js: the caption endpoint's handler, its    *)
(* token check, its request validator and its provider client.             *)
(*                                                                         *)
(* JavaScript values are tagged records: [t |-> "undefined"],              *)
(* [t |-> "null"], [t |-> "number", n |-> 5], [t |-> "boolean", b |-> ..], *)
(* [t |-> "object"], [t |-> "array"], and four kinds of strings:           *)
(*   [t |-> "string", s |-> runs]  a base64 payload, run-length encoded as *)
(*       a sequence of [c |-> class, n |-> count] with classes "b64"       *)
(*       (A-Za-z0-9+/), "pad" (=), "ws" (whitespace) and "bad" (any other  *)
(*       character), so that payloads of 20 MiB can be written down;       *)
(*   [t |-> "string", a |-> "image/jpeg"]  a short string kept whole.      *)
(*   [t |-> "string", h |-> chars]  a header value, the configured secret  *)
(*       or a completion text, a sequence of one-character strings;        *)
(*   [t |-> "string", m |-> message]  the message of an Error, its fixed   *)
(*       text with the value interpolated into it (never empty).           *)
(***************************************************************************)
EXTENDS Integers, Sequences, FiniteSets, TLC

VARIABLES
  secret,      \* SECURITY_CONFIG.REQUIRED_APP_TOKEN, read from the environment
  req,         \* the request: method, the two token headers, the parsed body
  requestId,   \* the identifier the handler generates on entry
  pc,          \* where the handler is: "received", "fetching" (awaiting
               \* fetch), "readingBody" (awaiting response.json()), "done"
  validation,  \* the result of validateRequestBody, once it has run
  fetches,     \* the payloads of the fetch calls issued to the provider
  timer,       \* the abort timer: "unset", "armed", "cleared", "fired"
  upstream,    \* the provider's response: status line, then parsed body
  sent,        \* the responses written to res, in order
  headersSet,  \* the response headers set with res.setHeader
  trace,       \* the calls the handler has made for this request, in order
  arrivals     \* the requests received from the client's IP in the current
               \* minute, this one included

vars == <<secret, req, requestId, pc, validation, fetches, timer, upstream, sent, headersSet, trace, arrivals>>

(* ------------------------------------------------------------------ *)
(* Bounds of the model                                                 *)
(* ------------------------------------------------------------------ *)
MaxRuns == 2
MaxText == 2
MaxArrivals == 61

(* ------------------------------------------------------------------ *)
(* JavaScript values                                                   *)
(* ------------------------------------------------------------------ *)
Undefined == [t |-> "undefined"]
Null == [t |-> "null"]
Num(n) == [t |-> "number", n |-> n]
Bool(b) == [t |-> "boolean", b |-> b]
Str(a) == [t |-> "string", a |-> a]
B64(runs) == [t |-> "string", s |-> runs]
Hdr(chars) == [t |-> "string", h |-> chars]
Obj == [t |-> "object"]

IsString(v) == v.t = "string"
IsB64(v) == v.t = "string" /\ "s" \in DOMAIN v

\* JavaScript truthiness: undefined, null, "", 0 and false are falsy.
Truthy(v) ==
  CASE v.t = "undefined" -> FALSE
    [] v.t = "null" -> FALSE
    [] v.t = "number" -> v.n # 0
    [] v.t = "boolean" -> v.b
    [] v.t = "string" -> IF "s" \in DOMAIN v THEN v.s # <<>>
                         ELSE IF "h" \in DOMAIN v THEN v.h # <<>>
                         ELSE IF "m" \in DOMAIN v THEN TRUE ELSE v.a # ""
    [] OTHER -> TRUE

\* a === b, for the values the model holds.
StrictEq(a, b) == a.t = b.t /\ DOMAIN a = DOMAIN b /\ a = b

RECURSIVE SumRuns(_)
SumRuns(runs) == IF runs = <<>> THEN 0 ELSE Head(runs).n + SumRuns(Tail(runs))

\* String.prototype.length of a run-length encoded string.
StrLength(runs) == SumRuns(runs)

IsWs(r) == r.c = "ws"
NotWs(r) == r.c # "ws"

\* imageData.replace(/\s/g, '')
StripWhitespace(runs) == SelectSeq(runs, NotWs)

\* An error message: its fixed text and the value interpolated into it.
Msg(text, arg) == [text |-> text, arg |-> arg]

Cites(errors, text) == \E i \in 1..Len(errors) : errors[i].text = text

(* ------------------------------------------------------------------ *)
(* Configuration                                                       *)
(* ------------------------------------------------------------------ *)
MAX_IMAGE_SIZE == 20 * 1024 * 1024
RATE_LIMIT == 60
MIN_IMAGE_SIZE == 100
ALLOWED_IMAGE_TYPES == {"image/jpeg", "image/jpg", "image/png", "image/webp"}

ERROR_TYPES ==
  [AUTHENTICATION_ERROR |-> [code |-> "AUTH_001", message |-> "Authentication failed"],
   VALIDATION_ERROR |-> [code |-> "VAL_001", message |-> "Request validation failed"],
   AI_PROVIDER_ERROR |-> [code |-> "AI_001", message |-> "AI provider error"],
   METHOD_NOT_ALLOWED |-> [code |-> "METHOD_001", message |-> "Method not allowed"]]

(* ------------------------------------------------------------------ *)
(* validateAppToken                                                    *)
(* ------------------------------------------------------------------ *)
HexChars == {"0", "1", "2", "3", "4", "5", "6", "7", "8", "9",
             "a", "b", "c", "d", "e", "f", "A", "B", "C", "D", "E", "F"}

\* /^[0-9a-f]{8}-[0-9a-f]{4}-[0-9a-f]{4}-[0-9a-f]{4}-[0-9a-f]{12}$/i
tokenPattern(chars) ==
  /\ Len(chars) = 36
  /\ \A i \in 1..36 :
       IF i \in {9, 14, 19, 24} THEN chars[i] = "-" ELSE chars[i] \in HexChars

validateAppToken_NoSecret(token, required) ==
  IF ~Truthy(token) \/ ~IsString(token) THEN FALSE
  ELSE tokenPattern(token.h)

validateAppToken_FailOpen(token, required) ==
  \/ ~Truthy(token)
  \/ /\ token.t = "string" /\ required.t = "string"
     /\ tokenPattern(token.h) /\ token.h = required.h

validateAppToken(token, required) ==
  IF ~Truthy(token) \/ ~IsString(token) THEN FALSE
  ELSE tokenPattern(token.h) /\ StrictEq(token, required)

(* ------------------------------------------------------------------ *)
(* validateRequestBody                                                 *)
(* ------------------------------------------------------------------ *)
Field(body, f) == IF f \in DOMAIN body THEN body[f] ELSE Undefined

IsObjectBody(body) == body.t \in {"object", "array"}

RECURSIVE DropB64(_)
DropB64(runs) ==
  IF runs # <<>> /\ Head(runs).c = "b64" THEN DropB64(Tail(runs)) ELSE runs

\* /^[A-Za-z0-9+\/]*={0,2}$/
base64Pattern(runs) ==
  LET rest == DropB64(runs)
  IN /\ \A i \in 1..Len(rest) : rest[i].c = "pad"
     /\ SumRuns(rest) <= 2

\* (cleanedBase64.length * 3) / 4 is a fraction; estimatedSizeX4 is four times it.
estimatedSizeX4_Truncated(cleanedLength) == ((cleanedLength * 3) \div 4) * 4

estimatedSizeX4(cleanedLength) == cleanedLength * 3

RequiredErrors_OnlyImage(body) ==
  IF ~Truthy(Field(body, "imageData"))
  THEN <<Msg("imageData field is required", 0)>> ELSE <<>>

RequiredErrors(body) ==
  (IF ~Truthy(Field(body, "imageData"))
   THEN <<Msg("imageData field is required", 0)>> ELSE <<>>)
  \o (IF ~Truthy(Field(body, "mimeType"))
      THEN <<Msg("mimeType field is required", 0)>> ELSE <<>>)

CharErrors(cleaned) ==
  IF ~base64Pattern(cleaned)
  THEN <<Msg("imageData contains invalid base64 characters", StrLength(cleaned))>>
  ELSE <<>>

SizeErrors(cleaned) ==
  LET est4 == estimatedSizeX4(StrLength(cleaned))
  IN (IF est4 > 4 * MAX_IMAGE_SIZE
      THEN <<Msg("Image size exceeds maximum allowed size", est4)>> ELSE <<>>)
     \o (IF est4 < 4 * MIN_IMAGE_SIZE
         THEN <<Msg("Image data appears to be too small or invalid", est4)>> ELSE <<>>)

EmptyErrors(cleaned) ==
  IF StrLength(cleaned) = 0 THEN <<Msg("imageData is empty after cleaning", 0)>> ELSE <<>>

LengthErrors(cleaned) ==
  IF StrLength(cleaned) % 4 # 0
  THEN <<Msg("imageData length is not valid base64 (must be multiple of 4)", StrLength(cleaned))>>
  ELSE <<>>

ImageErrors_Uncleaned(imageData) ==
  IF Truthy(imageData) /\ IsString(imageData)
  THEN LET cleaned == imageData.s
       IN CharErrors(cleaned) \o SizeErrors(cleaned) \o EmptyErrors(cleaned)
          \o LengthErrors(cleaned)
  ELSE <<>>

ImageErrors(imageData) ==
  IF Truthy(imageData) /\ IsString(imageData)
  THEN LET cleaned == StripWhitespace(imageData.s)
       IN CharErrors(cleaned) \o SizeErrors(cleaned) \o EmptyErrors(cleaned)
          \o LengthErrors(cleaned)
  ELSE <<>>

MimeErrors(mimeType) ==
  IF Truthy(mimeType) /\ ~(IsString(mimeType) /\ mimeType.a \in ALLOWED_IMAGE_TYPES)
  THEN <<Msg("Unsupported image type", mimeType)>> ELSE <<>>

validateRequestBody_FirstOnly(body) ==
  IF ~Truthy(body) \/ ~IsObjectBody(body)
  THEN [isValid |-> FALSE, debug |-> FALSE,
        errors |-> <<Msg("Request body must be a valid JSON object", 0)>>]
  ELSE IF StrictEq(Field(body, "debugMode"), Bool(TRUE))
  THEN [isValid |-> TRUE, debug |-> TRUE, errors |-> <<>>]
  ELSE LET errors == RequiredErrors(body) \o ImageErrors(Field(body, "imageData"))
                       \o MimeErrors(Field(body, "mimeType"))
       IN [isValid |-> Len(errors) = 0, debug |-> FALSE,
           errors |-> IF errors = <<>> THEN <<>> ELSE <<Head(errors)>>]

validateRequestBody_NoDebug(body) ==
  IF ~Truthy(body) \/ ~IsObjectBody(body)
  THEN [isValid |-> FALSE, debug |-> FALSE,
        errors |-> <<Msg("Request body must be a valid JSON object", 0)>>]
  ELSE LET errors == RequiredErrors(body) \o ImageErrors(Field(body, "imageData"))
                       \o MimeErrors(Field(body, "mimeType"))
       IN [isValid |-> Len(errors) = 0, debug |-> FALSE, errors |-> errors]

validateRequestBody(body) ==
  IF ~Truthy(body) \/ ~IsObjectBody(body)
  THEN [isValid |-> FALSE, debug |-> FALSE,
        errors |-> <<Msg("Request body must be a valid JSON object", 0)>>]
  ELSE IF StrictEq(Field(body, "debugMode"), Bool(TRUE))
  THEN [isValid |-> TRUE, debug |-> TRUE, errors |-> <<>>]
  ELSE LET errors == RequiredErrors(body) \o ImageErrors(Field(body, "imageData"))
                       \o MimeErrors(Field(body, "mimeType"))
       IN [isValid |-> Len(errors) = 0, debug |-> FALSE, errors |-> errors]

(* ------------------------------------------------------------------ *)
(* Errors and response envelopes                                       *)
(* ------------------------------------------------------------------ *)
\* new Date().toISOString()
Timestamp == "ISO-8601"

ErrMsg(text, arg) == [t |-> "string", m |-> Msg(text, arg)]
ArrayOf(items) == [t |-> "array", items |-> items]

\* new Error(message), new TypeError(message), an AbortError
JsError(name, message) == [name |-> name, message |-> message, stack |-> "stack"]

APIError_DefaultStatus(type, details, statusCode) ==
  [name |-> "APIError", type |-> type, code |-> type.code, message |-> type.message,
   details |-> details, statusCode |-> 500, timestamp |-> Timestamp,
   stack |-> "stack"]

APIError(type, details, statusCode) ==
  [name |-> "APIError", type |-> type, code |-> type.code, message |-> type.message,
   details |-> details, statusCode |-> statusCode, timestamp |-> Timestamp,
   stack |-> "stack"]

createErrorResponse_Bare(error) ==
  [error |-> [code |-> error.code, message |-> error.message,
              timestamp |-> error.timestamp]]

createErrorResponse(error) ==
  [success |-> FALSE,
   error |-> IF Truthy(error.details)
             THEN [code |-> error.code, message |-> error.message,
                   timestamp |-> error.timestamp, details |-> error.details]
             ELSE [code |-> error.code, message |-> error.message,
                   timestamp |-> error.timestamp]]

createSuccessResponse_NoRequestId(data, metadata) ==
  [success |-> TRUE,
   data |-> data,
   metadata |-> [timestamp |-> Timestamp, provider |-> "openai",
                 processingTime |-> metadata.processingTime,
                 imageSize |-> metadata.imageSize,
                 mimeType |-> metadata.mimeType]]

createSuccessResponse(data, metadata) ==
  [success |-> TRUE,
   data |-> data,
   metadata |-> [timestamp |-> Timestamp, provider |-> "openai",
                 requestId |-> metadata.requestId,
                 processingTime |-> metadata.processingTime,
                 imageSize |-> metadata.imageSize,
                 mimeType |-> metadata.mimeType]]

\* res.status(200).end()
EmptyBody == [empty |-> TRUE]

CorsHeaders_NoAllowHeaders ==
  {"Access-Control-Allow-Origin", "Access-Control-Allow-Methods"}

CorsHeaders ==
  {"Access-Control-Allow-Origin", "Access-Control-Allow-Methods",
   "Access-Control-Allow-Headers"}

(* ------------------------------------------------------------------ *)
(* The token the handler reads from the request headers                *)
(* ------------------------------------------------------------------ *)
Bearer == <<"B", "e", "a", "r", "e", "r", " ">>

\* s.replace(pat, ''): the first occurrence of pat is removed.
ReplaceFirst(s, pat) ==
  LET at == {i \in 1..(Len(s) - Len(pat) + 1) : SubSeq(s, i, i + Len(pat) - 1) = pat}
  IN IF at = {} THEN s
     ELSE LET i == CHOOSE k \in at : \A j \in at : k <= j
          IN SubSeq(s, 1, i - 1) \o SubSeq(s, i + Len(pat), Len(s))

appTokenOf_HeaderOnly(headers) == headers.xAppToken

\* req.headers['x-app-token'] || req.headers['authorization']?.replace('Bearer ', '')
appTokenOf(headers) ==
  IF Truthy(headers.xAppToken) THEN headers.xAppToken
  ELSE IF headers.authorization.t = "undefined" THEN Undefined
  ELSE Hdr(ReplaceFirst(headers.authorization.h, Bearer))

methodError_BadRequest(method) ==
  APIError(ERROR_TYPES.VALIDATION_ERROR, ErrMsg("Method not allowed", method), 400)

methodError(method) ==
  APIError(ERROR_TYPES.METHOD_NOT_ALLOWED, ErrMsg("Method not allowed", method), 405)

(* ------------------------------------------------------------------ *)
(* processWithOpenAI                                                   *)
(* ------------------------------------------------------------------ *)
RECURSIVE TrimStart(_)
TrimStart(chars) ==
  IF chars # <<>> /\ Head(chars) = " " THEN TrimStart(Tail(chars)) ELSE chars

RECURSIVE TrimEnd(_)
TrimEnd(chars) ==
  IF chars # <<>> /\ chars[Len(chars)] = " "
  THEN TrimEnd(SubSeq(chars, 1, Len(chars) - 1)) ELSE chars

\* String.prototype.trim
Trim(chars) == TrimEnd(TrimStart(chars))

\* The request body handed to fetch.
requestPayload(imageData, mimeType) ==
  [model |-> "gpt-4o", prompt |-> "default",
   url |-> [mimeType |-> mimeType, base64 |-> StripWhitespace(imageData.s)],
   max_tokens |-> 300]

\* The catch block of processWithOpenAI.
wrapProviderError_Generic(error) ==
  JsError("Error", Msg("OpenAI processing failed: ", error.message))

wrapProviderError(error) ==
  IF error.name = "AbortError"
  THEN JsError("Error", Msg("Request timeout: OpenAI API took too long to respond", 0))
  ELSE JsError("Error", Msg("OpenAI processing failed: ", error.message))

captionOf_Untrimmed(content) ==
  IF content.t = "undefined" THEN Undefined ELSE Hdr(content.h)

\* data.choices?.[0]?.message?.content?.trim(), for a string or absent content
captionOf(content) ==
  IF content.t = "undefined" THEN Undefined ELSE Hdr(Trim(content.h))

\* What the try block makes of the parsed body of an OK response: the
\* ProviderResult, or the error it throws.
providerResult(data) ==
  IF data.content.t \notin {"undefined", "string"}
  THEN [threw |-> TRUE,
        error |-> JsError("TypeError", Msg("content.trim is not a function", 0))]
  ELSE LET caption == captionOf(data.content)
       IN IF ~Truthy(caption)
          THEN [threw |-> TRUE,
                error |-> JsError("Error", Msg("No caption generated by OpenAI", 0))]
          ELSE [threw |-> FALSE,
                value |-> [caption |-> caption, provider |-> "OpenAI", model |-> "gpt-4o",
                           confidence |-> IF data.finish_reason = "stop"
                                          THEN "high" ELSE "medium",
                           usage |-> data.usage]]

\* The error thrown for a response that is not OK.
upstreamError(status, errorData) ==
  JsError("Error", Msg("OpenAI API error: ",
                       <<status, IF errorData.hasMessage THEN "upstream message"
                                 ELSE "Unknown error">>))

\* req.body.imageData.length
imageSizeOf(imageData) == StrLength(imageData.s)

(* ------------------------------------------------------------------ *)
(* Inputs                                                              *)
(* ------------------------------------------------------------------ *)
Rep(c, n) == [i \in 1..n |-> c]

Uuid(c) ==
  Rep(c, 8) \o <<"-">> \o Rep(c, 4) \o <<"-">> \o Rep(c, 4) \o <<"-">> \o Rep(c, 4)
  \o <<"-">> \o Rep(c, 12)

\* process.env.APP_TOKEN: a UUID, or not set.
Secrets == {Hdr(Uuid("a")), Undefined}

Methods == {"POST", "OPTIONS", "GET", "DELETE"}

XAppTokens ==
  {Undefined, Hdr(<<>>), Hdr(Uuid("a")), Hdr(Uuid("A")), Hdr(Uuid("b")), Hdr(Rep("a", 36))}

Authorizations ==
  {Undefined, Hdr(Bearer \o Uuid("a")), Hdr(Uuid("a")), Hdr(Bearer \o Uuid("b"))}

Run(c, n) == [c |-> c, n |-> n]

\* Payloads the handler is tried on: well formed (with and without
\* whitespace), of a length that is no multiple of 4, too small, of
\* characters outside the alphabet, too large, whitespace only, empty.
HandlerImages ==
  {Undefined, Num(5), B64(<<>>),
   B64(<<Run("b64", 136)>>),
   B64(<<Run("b64", 132), Run("ws", 1), Run("b64", 2), Run("pad", 2)>>),
   B64(<<Run("b64", 134)>>),
   B64(<<Run("b64", 4)>>),
   B64(<<Run("bad", 136)>>),
   B64(<<Run("b64", 27962028)>>),
   B64(<<Run("ws", 4)>>)}

MimeTypes == {Undefined, Str(""), Str("image/jpeg"), Str("image/heic")}

DebugModes == {Undefined, Bool(TRUE), Str("true")}

ObjectBody(imageData, mimeType, debugMode) ==
  [t |-> "object", imageData |-> imageData, mimeType |-> mimeType, debugMode |-> debugMode]

HandlerBodies ==
  {Undefined, Null, Str("text"), [t |-> "array"]}
  \cup {ObjectBody(i, m, d) : i \in HandlerImages, m \in MimeTypes, d \in DebugModes}

RequestIds == {"req_1_a", "req_2_b"}

TextChars == {" ", "x"}
Texts == UNION {[1..n -> TextChars] : n \in 0..MaxText}

\* The parsed body of an OK provider response, as far as the client reads it.
Completions ==
  {[content |-> c, finish_reason |-> f, usage |-> u] :
     c \in {Undefined, Num(5)} \cup {Hdr(x) : x \in Texts},
     f \in {"stop", "length"},
     u \in {Null, Obj}}

NoValidation == [isValid |-> FALSE, debug |-> FALSE, errors |-> <<>>, ran |-> FALSE]
NoUpstream == [ok |-> FALSE, status |-> 0, body |-> "none"]

(* ------------------------------------------------------------------ *)
(* The handler                                                         *)
(* ------------------------------------------------------------------ *)
Ev(name) == [ev |-> name]

Ran(v) == [isValid |-> v.isValid, debug |-> v.debug, errors |-> v.errors, ran |-> TRUE]

\* res.status(status).json(body) or res.status(status).end(), after `events`.
Respond(status, body, events) ==
  /\ sent' = Append(sent, [status |-> status, body |-> body])
  /\ trace' = trace \o events
  /\ pc' = "done"

\* The handler's catch block, entered with `error` after `events`.
Catch(error, events) ==
  LET unexpected == error.name # "APIError"
      apiError == IF unexpected
                  THEN APIError(ERROR_TYPES.AI_PROVIDER_ERROR,
                                [t |-> "string", m |-> error.message], 500)
                  ELSE error
      log == [ev |-> "console.error", code |-> apiError.code,
              message |-> apiError.message, details |-> apiError.details,
              stack |-> apiError.stack]
      caught == [ev |-> "catch", name |-> error.name, message |-> error.message]
  IN Respond(apiError.statusCode, createErrorResponse(apiError),
             events \o <<caught>>
                    \o (IF unexpected THEN <<Ev("console.error: Unexpected error")>>
                        ELSE <<>>)
                    \o <<log, Ev("res.json")>>)

\* The handler from its first line to its first await or its response.
Handle ==
  /\ pc = "received"
  /\ headersSet' = headersSet \cup CorsHeaders
  /\ UNCHANGED <<arrivals, secret, req, requestId, upstream>>
  /\ LET cors == <<Ev("res.setHeader")>>
         appToken == appTokenOf(req.headers)
         v == validateRequestBody(req.body)
         imageData == Field(req.body, "imageData")
     IN IF req.method = "OPTIONS"
        THEN /\ Respond(200, EmptyBody, cors \o <<Ev("res.end")>>)
             /\ UNCHANGED <<validation, fetches, timer>>
        ELSE IF req.method # "POST"
        THEN /\ Respond(405, createErrorResponse(methodError(req.method)),
                        cors \o <<Ev("res.json")>>)
             /\ UNCHANGED <<validation, fetches, timer>>
        ELSE IF ~validateAppToken(appToken, secret)
        THEN /\ Catch(APIError(ERROR_TYPES.AUTHENTICATION_ERROR,
                               ErrMsg("Invalid or missing app token", 0), 401),
                      cors \o <<Ev("validateAppToken")>>)
             /\ UNCHANGED <<validation, fetches, timer>>
        ELSE IF ~v.isValid
        THEN /\ Catch(APIError(ERROR_TYPES.VALIDATION_ERROR, ArrayOf(v.errors), 400),
                      cors \o <<Ev("validateAppToken"), Ev("validateRequestBody")>>)
             /\ validation' = Ran(v)
             /\ UNCHANGED <<fetches, timer>>
        ELSE IF ~IsString(imageData)
        THEN \* imageData.replace throws before the try block is entered
             /\ Catch(JsError("TypeError",
                              IF imageData.t \in {"undefined", "null"}
                              THEN Msg("Cannot read properties of undefined", "replace")
                              ELSE Msg("imageData.replace is not a function", 0)),
                      cors \o <<Ev("validateAppToken"), Ev("validateRequestBody")>>)
             /\ validation' = Ran(v)
             /\ UNCHANGED <<fetches, timer>>
        ELSE /\ validation' = Ran(v)
             /\ fetches' = Append(fetches,
                                  requestPayload(imageData, Field(req.body, "mimeType")))
             /\ timer' = "armed"
             /\ trace' = trace \o cors
                           \o <<Ev("validateAppToken"), Ev("validateRequestBody"),
                                Ev("setTimeout"), Ev("fetch")>>
             /\ pc' = "fetching"
             /\ UNCHANGED sent

\* fetch resolves with the response's status line and headers.
FetchResolve ==
  /\ pc = "fetching"
  /\ \E status \in {200, 429, 500} :
       upstream' = [ok |-> status = 200, status |-> status, body |-> "pending"]
  /\ timer' = "cleared"
  /\ trace' = Append(trace, Ev("clearTimeout"))
  /\ pc' = "readingBody"
  /\ UNCHANGED <<arrivals, secret, req, requestId, validation, fetches, sent, headersSet>>

\* fetch rejects: the connection failed.
FetchReject ==
  /\ pc = "fetching"
  /\ Catch(wrapProviderError(JsError("TypeError", Msg("fetch failed", 0))), <<>>)
  /\ UNCHANGED <<arrivals, secret, req, requestId, validation, fetches, timer, upstream, headersSet>>

\* The timer fires while fetch is pending: controller.abort() rejects it.
Timeout ==
  /\ pc = "fetching"
  /\ timer = "armed"
  /\ timer' = "fired"
  /\ Catch(wrapProviderError(JsError("AbortError", Msg("This operation was aborted", 0))),
           <<Ev("controller.abort")>>)
  /\ UNCHANGED <<arrivals, secret, req, requestId, validation, fetches, upstream, headersSet>>

\* response.json() resolves with the parsed body.  The elapsed time the
\* handler measures is kept as the token "elapsed".
BodyResolve ==
  /\ pc = "readingBody"
  /\ UNCHANGED <<arrivals, secret, req, requestId, validation, fetches, timer, headersSet>>
  /\ IF ~upstream.ok
     THEN \E hasMessage \in BOOLEAN :
            /\ upstream' = [upstream EXCEPT !.body = "error body"]
            /\ Catch(wrapProviderError(upstreamError(upstream.status,
                                                     [hasMessage |-> hasMessage])), <<>>)
     ELSE \E data \in Completions :
            LET r == providerResult(data)
                imageData == req.body.imageData
            IN /\ upstream' = [ok |-> TRUE, status |-> upstream.status, body |-> "json",
                               data |-> data]
               /\ IF r.threw THEN Catch(wrapProviderError(r.error), <<>>)
                  ELSE Respond(200,
                      createSuccessResponse(
                        [caption |-> r.value.caption, provider |-> r.value.provider,
                         model |-> r.value.model, confidence |-> r.value.confidence,
                         usage |-> r.value.usage, processingTime |-> "elapsed ms",
                         requestId |-> requestId],
                        [requestId |-> requestId, processingTime |-> "elapsed",
                         imageSize |-> imageSizeOf(imageData),
                         mimeType |-> Field(req.body, "mimeType")]),
                      <<Ev("res.json")>>)

\* response.json() rejects: the body is not JSON, or the connection broke.
BodyReject ==
  /\ pc = "readingBody"
  /\ upstream' = [upstream EXCEPT !.body = "unreadable"]
  /\ UNCHANGED <<arrivals, secret, req, requestId, validation, fetches, timer, headersSet>>
  /\ IF ~upstream.ok
     THEN \* .catch(() => ({})) turns the failure into an empty error body
          Catch(wrapProviderError(upstreamError(upstream.status,
                                                [hasMessage |-> FALSE])), <<>>)
     ELSE Catch(wrapProviderError(JsError("SyntaxError", Msg("Unexpected token", 0))), <<>>)

InitCommon ==
  /\ requestId \in RequestIds
  /\ pc = "received"
  /\ validation = NoValidation
  /\ fetches = <<>>
  /\ timer = "unset"
  /\ upstream = NoUpstream
  /\ sent = <<>>
  /\ headersSet = {}
  /\ trace = <<>>
  /\ arrivals = 1

Init ==
  /\ secret \in Secrets
  /\ req \in [method : Methods,
              headers : [xAppToken : XAppTokens, authorization : Authorizations],
              body : HandlerBodies]
  /\ InitCommon

Next == Handle \/ FetchResolve \/ FetchReject \/ Timeout \/ BodyResolve \/ BodyReject

Spec == Init /\ [][Next]_vars

(* ------------------------------------------------------------------ *)
(* validateRequestBody on its own, over a wider set of bodies          *)
(* ------------------------------------------------------------------ *)
RunClasses == {"b64", "pad", "ws", "bad"}
RunCounts == {1, 2, 132, 134, 27962026}
Runs == {Run(c, n) : c \in RunClasses, n \in RunCounts}
RunSeqs == UNION {[1..k -> Runs] : k \in 0..MaxRuns}

ValidatorBodies ==
  {Undefined, Null, Str("text"), [t |-> "array"]}
  \cup {ObjectBody(i, m, d) :
          i \in {Undefined, Num(5), Bool(TRUE), Obj} \cup {B64(r) : r \in RunSeqs},
          m \in MimeTypes, d \in DebugModes}

\* const validation = validateRequestBody(req.body)
Validate ==
  /\ pc = "received"
  /\ validation' = Ran(validateRequestBody(req.body))
  /\ trace' = Append(trace, Ev("validateRequestBody"))
  /\ pc' = "validated"
  /\ UNCHANGED <<arrivals, secret, req, requestId, fetches, timer, upstream, sent, headersSet>>

InitV ==
  /\ secret = Hdr(Uuid("a"))
  /\ req \in [method : {"POST"},
              headers : [xAppToken : {Hdr(Uuid("a"))}, authorization : {Undefined}],
              body : ValidatorBodies]
  /\ InitCommon

NextV == Validate

SpecV == InitV /\ [][NextV]_vars

(* ------------------------------------------------------------------ *)
(* The handler's first step over the wider set of bodies               *)
(* ------------------------------------------------------------------ *)
NextH == Handle

SpecH == InitV /\ [][NextH]_vars

(* ------------------------------------------------------------------ *)
(* The handler under the scheduling the runtime guarantees: the        *)
(* handler's own steps run, and an armed timer fires while the fetch    *)
(* it guards is pending.  Nothing obliges the provider to answer.      *)
(* ------------------------------------------------------------------ *)
SpecLive == Init /\ [][Next]_vars /\ WF_vars(Handle) /\ WF_vars(Timeout)

(* ------------------------------------------------------------------ *)
(* A run of requests from one IP within one minute                     *)
(* ------------------------------------------------------------------ *)
\* A well-formed request carrying the secret.
GoodRequest ==
  [method |-> "POST",
   headers |-> [xAppToken |-> Hdr(Uuid("a")), authorization |-> Undefined],
   body |-> ObjectBody(B64(<<Run("b64", 136)>>), Str("image/jpeg"), Undefined)]

\* The platform invokes the handler for the next request of the same client.
NextRequest ==
  /\ pc = "done"
  /\ arrivals < MaxArrivals
  /\ arrivals' = arrivals + 1
  /\ req' = GoodRequest
  /\ requestId' \in RequestIds
  /\ pc' = "received"
  /\ validation' = NoValidation
  /\ fetches' = <<>>
  /\ timer' = "unset"
  /\ upstream' = NoUpstream
  /\ sent' = <<>>
  /\ headersSet' = {}
  /\ trace' = <<>>
  /\ UNCHANGED secret

InitRate ==
  /\ secret = Hdr(Uuid("a"))
  /\ req = GoodRequest
  /\ InitCommon

NextRate == Next \/ NextRequest

SpecRate == InitRate /\ [][NextRate]_vars

(* ------------------------------------------------------------------ *)
(* Vocabulary of the properties                                        *)
(* ------------------------------------------------------------------ *)
\* The token the handler reads has the UUID shape and is the configured secret.
TokenMatches ==
  LET token == appTokenOf(req.headers)
  IN /\ token.t = "string"
     /\ secret.t = "string"
     /\ tokenPattern(token.h)
     /\ token.h = secret.h

IsPost == req.method = "POST"
Done == pc = "done"

DebugOn == IsObjectBody(req.body) /\ StrictEq(Field(req.body, "debugMode"), Bool(TRUE))

Absent(f) == Field(req.body, f).t = "undefined"

IsErrorEnvelope(b) ==
  /\ DOMAIN b = {"success", "error"}
  /\ b.success = FALSE
  /\ {"code", "message", "timestamp"} \subseteq DOMAIN b.error

IsSuccessEnvelope(b) ==
  /\ DOMAIN b = {"success", "data", "metadata"}
  /\ b.success = TRUE

\* One response was sent: an error envelope with this status and code.
SentError(status, code) ==
  /\ Len(sent) = 1
  /\ sent[1].status = status
  /\ IsErrorEnvelope(sent[1].body)
  /\ sent[1].body.error.code = code

HasDetails == "details" \in DOMAIN sent[1].body.error

\* error.details is the validator's list and cites this message.
DetailsCite(text) ==
  /\ HasDetails
  /\ sent[1].body.error.details.t = "array"
  /\ Cites(sent[1].body.error.details.items, text)

Happened(name) == \E i \in 1..Len(trace) : trace[i].ev = name

NoProviderCall == fetches = <<>> /\ ~Happened("fetch")
NoValidationRun == ~validation.ran /\ ~Happened("validateRequestBody")

(* ------------------------------------------------------------------ *)
(* C1: a POST whose token is missing, not UUID-shaped or not the       *)
(* configured secret is answered 401 with the AUTH_001 error envelope, *)
(* whatever its body is; its body is never validated and the provider  *)
(* is never called.                                                    *)
(* ------------------------------------------------------------------ *)
C1_RejectsBadToken ==
  (IsPost /\ ~TokenMatches) =>
    /\ pc \in {"received", "done"}
    /\ Done => SentError(401, "AUTH_001")
    /\ NoValidationRun
    /\ NoProviderCall

\* A well-shaped token that is not the secret, on a body the validator
\* would accept through debugMode, has been answered.
C1_Witness ==
  /\ Done /\ IsPost /\ ~TokenMatches
  /\ req.headers.xAppToken = Hdr(Uuid("b"))
  /\ secret = Hdr(Uuid("a"))
  /\ DebugOn
  /\ SentError(401, "AUTH_001")

(* ------------------------------------------------------------------ *)
(* C2 as stated: an authenticated POST whose body lacks imageData or    *)
(* mimeType, debugMode not true, is answered 400 VAL_001 with the       *)
(* message of each missing field in error.details.                     *)
(* ------------------------------------------------------------------ *)
C2_AsStated ==
  (Done /\ IsPost /\ TokenMatches /\ Truthy(req.body) /\ ~DebugOn
     /\ (Absent("imageData") \/ Absent("mimeType"))) =>
    /\ SentError(400, "VAL_001")
    /\ Absent("imageData") => DetailsCite("imageData field is required")
    /\ Absent("mimeType") => DetailsCite("mimeType field is required")

(* ------------------------------------------------------------------ *)
(* C2, amended: an authenticated POST whose body is a JSON object or    *)
(* array lacking imageData or mimeType, debugMode not true, is answered *)
(* 400 VAL_001 with the message of each missing field in error.details  *)
(* (both messages when both are missing); a body that is no object is   *)
(* answered 400 VAL_001 with the single message 'Request body must be   *)
(* a valid JSON object'.                                               *)
(* ------------------------------------------------------------------ *)
C2_MissingFields ==
  (Done /\ IsPost /\ TokenMatches /\ ~DebugOn
     /\ (Absent("imageData") \/ Absent("mimeType"))) =>
    /\ SentError(400, "VAL_001")
    /\ HasDetails
    /\ IF Truthy(req.body) /\ IsObjectBody(req.body)
       THEN /\ Absent("imageData") => DetailsCite("imageData field is required")
            /\ Absent("mimeType") => DetailsCite("mimeType field is required")
       ELSE sent[1].body.error.details
              = ArrayOf(<<Msg("Request body must be a valid JSON object", 0)>>)

\* Both fields are missing from an object body and both messages came back.
C2_Witness ==
  /\ Done /\ IsPost /\ TokenMatches /\ ~DebugOn
  /\ req.body.t = "object"
  /\ Absent("imageData") /\ Absent("mimeType")
  /\ SentError(400, "VAL_001")
  /\ DetailsCite("imageData field is required")
  /\ DetailsCite("mimeType field is required")

(* ------------------------------------------------------------------ *)
(* C3 as stated: a body whose imageData, whitespace stripped, has a     *)
(* length that is no multiple of 4 is reported invalid with the 'not    *)
(* valid base64' message, whatever its other fields are.               *)
(* ------------------------------------------------------------------ *)
LengthMessage == "imageData length is not valid base64 (must be multiple of 4)"

BadLength ==
  /\ req.body.t = "object"
  /\ IsB64(req.body.imageData)
  /\ StrLength(StripWhitespace(req.body.imageData.s)) % 4 # 0

C3_AsStated ==
  (pc = "validated" /\ BadLength) =>
    /\ ~validation.isValid
    /\ Cites(validation.errors, LengthMessage)

(* ------------------------------------------------------------------ *)
(* C3, amended: unless debugMode is true, a body whose imageData,       *)
(* whitespace stripped, has a length that is no multiple of 4 is        *)
(* reported invalid with the 'not valid base64' message, whatever its   *)
(* other fields are.                                                   *)
(* ------------------------------------------------------------------ *)
C3_BadLengthRejected ==
  (pc = "validated" /\ BadLength /\ ~DebugOn) =>
    /\ ~validation.isValid
    /\ Cites(validation.errors, LengthMessage)

\* The length is the only thing wrong, and only once whitespace is stripped.
C3_Witness ==
  /\ pc = "validated" /\ BadLength /\ ~DebugOn
  /\ StrLength(req.body.imageData.s) % 4 = 0
  /\ req.body.mimeType = Str("image/jpeg")
  /\ Len(validation.errors) = 1
  /\ Cites(validation.errors, LengthMessage)

(* ------------------------------------------------------------------ *)
(* C4 as stated: with the estimated size cleanedLength * 3 / 4,         *)
(* validation fails with the size-exceeded message exactly when the     *)
(* estimate is above 20 MiB and with the 'too small or invalid'         *)
(* message exactly when it is below 100 bytes.                         *)
(* ------------------------------------------------------------------ *)
SizeMessage == "Image size exceeds maximum allowed size"
SmallMessage == "Image data appears to be too small or invalid"

\* Four times the estimated size of the payload under validation.
PayloadSizeX4 == 3 * StrLength(StripWhitespace(req.body.imageData.s))

StringPayload == req.body.t = "object" /\ IsB64(req.body.imageData)

SizeVerdicts ==
  /\ (~validation.isValid /\ Cites(validation.errors, SizeMessage))
       <=> PayloadSizeX4 > 4 * (20 * 1024 * 1024)
  /\ (~validation.isValid /\ Cites(validation.errors, SmallMessage))
       <=> PayloadSizeX4 < 4 * 100

WellFormedBody ==
  /\ req.body.t = "object"
  /\ IsB64(req.body.imageData)
  /\ LET cleaned == StripWhitespace(req.body.imageData.s)
     IN /\ base64Pattern(cleaned)
        /\ StrLength(cleaned) > 0
        /\ StrLength(cleaned) % 4 = 0
        /\ 3 * StrLength(cleaned) >= 4 * 100
        /\ 3 * StrLength(cleaned) <= 4 * (20 * 1024 * 1024)
  /\ req.body.mimeType.t = "string"
  /\ req.body.mimeType.a \in {"image/jpeg", "image/jpg", "image/png", "image/webp"}

CompletionReturned ==
  /\ upstream.ok
  /\ upstream.body = "json"
  /\ upstream.data.content.t = "string"
  /\ Trim(upstream.data.content.h) # <<>>

C5_RoundTrip ==
  (Done /\ IsPost /\ TokenMatches /\ WellFormedBody /\ CompletionReturned) =>
    /\ Len(sent) = 1
    /\ sent[1].status = 200
    /\ IsSuccessEnvelope(sent[1].body)
    /\ sent[1].body.data.caption = Hdr(Trim(upstream.data.content.h))
    /\ sent[1].body.metadata.imageSize = StrLength(req.body.imageData.s)

\* The completion had whitespace to trim and the payload whitespace to strip.
C5_Witness ==
  /\ Done /\ IsPost /\ TokenMatches /\ WellFormedBody /\ CompletionReturned
  /\ ~DebugOn
  /\ upstream.data.content.h # Trim(upstream.data.content.h)
  /\ StrLength(req.body.imageData.s) # StrLength(StripWhitespace(req.body.imageData.s))
  /\ sent[1].status = 200
  /\ sent[1].body.data.caption = Hdr(<<"x">>)

(* ------------------------------------------------------------------ *)
(* C6: an OPTIONS request is answered 200 with an empty body and the    *)
(* three CORS headers set, whatever token and body it carries; nothing  *)
(* is authenticated or validated and the provider is not called.       *)
(* ------------------------------------------------------------------ *)
PreflightResponse == [status |-> 200, body |-> [empty |-> TRUE]]

C6_Preflight ==
  req.method = "OPTIONS" =>
    /\ pc \in {"received", "done"}
    /\ Done => /\ sent = <<PreflightResponse>>
               /\ headersSet = {"Access-Control-Allow-Origin",
                                "Access-Control-Allow-Methods",
                                "Access-Control-Allow-Headers"}
    /\ ~Happened("validateAppToken")
    /\ NoValidationRun
    /\ NoProviderCall

\* A preflight without a token and without a body has been answered.
C6_Witness ==
  /\ Done /\ req.method = "OPTIONS"
  /\ ~TokenMatches
  /\ req.body = Undefined
  /\ sent[1].status = 200

(* ------------------------------------------------------------------ *)
(* C7 as stated: when the provider call is aborted on the timeout, the  *)
(* client receives a 500 whose error.message mentions the timeout.     *)
(* ------------------------------------------------------------------ *)
TimeoutText == "Request timeout: OpenAI API took too long to respond"

TimedOut == Done /\ timer = "fired"

C7_AsStated ==
  TimedOut =>
    /\ Len(sent) = 1
    /\ sent[1].status = 500
    /\ sent[1].body.error.message = TimeoutText

(* ------------------------------------------------------------------ *)
(* C7, amended: when the provider call is aborted on the timeout, the   *)
(* client receives a 500 with code AI_001 whose error.details is the    *)
(* timeout message, not the generic 'OpenAI processing failed' string;  *)
(* its error.message is the generic 'AI provider error'.               *)
(* ------------------------------------------------------------------ *)
C7_TimeoutInDetails ==
  TimedOut =>
    /\ SentError(500, "AI_001")
    /\ sent[1].body.error.message = "AI provider error"
    /\ HasDetails
    /\ sent[1].body.error.details.t = "string"
    /\ sent[1].body.error.details.m.text = TimeoutText

\* The timer fired on a pending fetch and the request was answered.
C7_Witness ==
  /\ TimedOut
  /\ Happened("controller.abort")
  /\ Len(fetches) = 1
  /\ sent[1].status = 500

(* ------------------------------------------------------------------ *)
(* C8: an object body with debugMode true is reported valid with no     *)
(* errors whatever imageData and mimeType are; an authenticated POST    *)
(* with debugMode true, imageData "" and no mimeType is not answered    *)
(* 400 and reaches the provider call.                                  *)
(* ------------------------------------------------------------------ *)
EmptyDebugBody ==
  /\ StrictEq(Field(req.body, "imageData"), B64(<<>>))
  /\ Absent("mimeType")

C8_DebugBypass ==
  (IsPost /\ TokenMatches /\ DebugOn /\ Truthy(req.body) /\ pc # "received") =>
    /\ validation.ran
    /\ validation.isValid
    /\ validation.errors = <<>>
    /\ EmptyDebugBody =>
         /\ Len(fetches) = 1
         /\ Happened("fetch")
         /\ \A i \in 1..Len(sent) : sent[i].status # 400

\* The provider call is pending for the empty debug body.
C8_Witness ==
  /\ IsPost /\ TokenMatches /\ DebugOn /\ EmptyDebugBody
  /\ pc = "fetching"
  /\ Len(fetches) = 1

(* ------------------------------------------------------------------ *)
(* C9 as stated: every request, whatever its method, gets exactly one   *)
(* response, and it is the success envelope or the error envelope.     *)
(* ------------------------------------------------------------------ *)
OneEnvelope ==
  /\ Len(sent) = 1
  /\ IsSuccessEnvelope(sent[1].body) \/ IsErrorEnvelope(sent[1].body)

C9_AsStated ==
  /\ ~Done => sent = <<>>
  /\ Done => OneEnvelope

(* ------------------------------------------------------------------ *)
(* C9, amended: every request whose handling completes gets exactly     *)
(* one response; for a method other than OPTIONS it is the success      *)
(* envelope or the error envelope, and for OPTIONS it is the 200 with   *)
(* an empty body.                                                      *)
(* ------------------------------------------------------------------ *)
C9_OneResponse ==
  /\ ~Done => sent = <<>>
  /\ Done => IF req.method = "OPTIONS"
             THEN sent = <<PreflightResponse>>
             ELSE OneEnvelope

\* An error envelope went out after the provider had been called.
C9_Witness ==
  /\ Done
  /\ Len(fetches) = 1
  /\ Len(sent) = 1
  /\ IsErrorEnvelope(sent[1].body)

(* ------------------------------------------------------------------ *)
(* C10: a request whose method is neither POST nor OPTIONS is answered  *)
(* 405 with code METHOD_001 at once, before the token is examined and   *)
(* whatever token and body it carries; nothing is authenticated or      *)
(* validated and the provider is not called.                           *)
(* ------------------------------------------------------------------ *)
C10_MethodNotAllowed ==
  req.method \notin {"POST", "OPTIONS"} =>
    /\ pc \in {"received", "done"}
    /\ Done => SentError(405, "METHOD_001")
    /\ ~Happened("validateAppToken")
    /\ NoValidationRun
    /\ NoProviderCall

\* A GET carrying the secret and a well-formed body has been refused.
C10_Witness ==
  /\ Done /\ req.method = "GET"
  /\ TokenMatches /\ WellFormedBody
  /\ SentError(405, "METHOD_001")

(* ------------------------------------------------------------------ *)
(* C11 as stated: every response body, success or failure, carries an   *)
(* ISO-8601 timestamp and the request identifier generated for the      *)
(* request.                                                            *)
(* ------------------------------------------------------------------ *)
CarriesTimestamp(b) ==
  IF b.success
  THEN "timestamp" \in DOMAIN b.metadata /\ b.metadata.timestamp = "ISO-8601"
  ELSE "timestamp" \in DOMAIN b.error /\ b.error.timestamp = "ISO-8601"

CarriesRequestId(b) ==
  IF b.success
  THEN /\ "requestId" \in DOMAIN b.metadata /\ b.metadata.requestId = requestId
       /\ "requestId" \in DOMAIN b.data /\ b.data.requestId = requestId
  ELSE \/ "requestId" \in DOMAIN b
       \/ "requestId" \in DOMAIN b.error

C11_AsStated ==
  (Done /\ req.method # "OPTIONS") =>
    /\ Len(sent) = 1
    /\ CarriesTimestamp(sent[1].body)
    /\ CarriesRequestId(sent[1].body)

(* ------------------------------------------------------------------ *)
(* C11, amended: every success response body carries an ISO-8601        *)
(* timestamp and the request identifier generated for the request (in   *)
(* data and in metadata); every error response body carries an          *)
(* ISO-8601 timestamp but no request identifier; the OPTIONS response   *)
(* has an empty body and carries neither.                              *)
(* ------------------------------------------------------------------ *)
C11_Stamps ==
  Done =>
    /\ Len(sent) = 1
    /\ IF req.method = "OPTIONS" THEN sent[1].body = [empty |-> TRUE]
       ELSE /\ CarriesTimestamp(sent[1].body)
            /\ sent[1].body.success <=> CarriesRequestId(sent[1].body)

\* A success response went out under the second identifier.
C11_Witness ==
  /\ Done /\ Len(sent) = 1
  /\ sent[1].status = 200 /\ IsSuccessEnvelope(sent[1].body)
  /\ requestId = "req_2_b"
  /\ sent[1].body.metadata.requestId = "req_2_b"

(* ------------------------------------------------------------------ *)
(* C12: a failure in the POST pipeline that is not an APIError          *)
(* (provider failure, upstream status, empty completion, timeout,       *)
(* runtime exception) is answered 500 with code AI_001, the message of  *)
(* the error the handler caught as details, and no stack; and every     *)
(* error response pairs its code with its status as AUTH_001/401,       *)
(* VAL_001/400, AI_001/500 or METHOD_001/405.                          *)
(* ------------------------------------------------------------------ *)
CodeStatusPairs ==
  {<<"AUTH_001", 401>>, <<"VAL_001", 400>>, <<"AI_001", 500>>, <<"METHOD_001", 405>>}

Unclassified(e) == e.ev = "catch" /\ e.name # "APIError"

BearerSecret ==
  /\ secret.t = "string"
  /\ tokenPattern(secret.h)
  /\ StrictEq(req.headers.authorization, Hdr(Bearer \o secret.h))

Authenticated ==
  /\ Happened("validateRequestBody")
  /\ validation.ran
  /\ \A k \in 1..Len(sent) : sent[k].status # 401

C13_AsStated == (IsPost /\ BearerSecret /\ pc # "received") => Authenticated

(* ------------------------------------------------------------------ *)
(* C13, amended: a POST carrying the configured secret as               *)
(* 'Authorization: Bearer <uuid>' passes authentication just like one   *)
(* carrying it in X-App-Token, provided its X-App-Token header is       *)
(* absent, empty or the secret itself; any other X-App-Token value is   *)
(* the token that is checked, and the request is answered 401.         *)
(* ------------------------------------------------------------------ *)
C13_BearerAccepted ==
  (IsPost /\ BearerSecret /\ pc # "received") =>
    IF ~Truthy(req.headers.xAppToken) \/ StrictEq(req.headers.xAppToken, secret)
    THEN Authenticated
    ELSE SentError(401, "AUTH_001") /\ NoValidationRun

\* The secret came in the Authorization header alone and the provider was called.
C13_Witness ==
  /\ IsPost /\ BearerSecret
  /\ req.headers.xAppToken = Undefined
  /\ pc = "fetching"
  /\ Authenticated

(* ------------------------------------------------------------------ *)
(* C14 as stated: of the requests one IP sends within a minute, those   *)
(* beyond the 60th are not processed (no provider call) and are         *)
(* answered with a rate-limit rejection.                               *)
(* ------------------------------------------------------------------ *)
C14_AsStated ==
  arrivals > RATE_LIMIT =>
    /\ NoProviderCall
    /\ Done => (Len(sent) = 1 /\ sent[1].status = 429)

(* ------------------------------------------------------------------ *)
(* C15 as stated: an otherwise valid authenticated request with         *)
(* mimeType image/heic passes validation and is forwarded to the        *)
(* provider.                                                           *)
(* ------------------------------------------------------------------ *)
WellFormedImage ==
  /\ req.body.t = "object"
  /\ IsB64(req.body.imageData)
  /\ LET cleaned == StripWhitespace(req.body.imageData.s)
     IN /\ base64Pattern(cleaned)
        /\ StrLength(cleaned) > 0
        /\ StrLength(cleaned) % 4 = 0
        /\ 3 * StrLength(cleaned) >= 4 * 100
        /\ 3 * StrLength(cleaned) <= 4 * (20 * 1024 * 1024)

C15_AsStated ==
  (IsPost /\ TokenMatches /\ WellFormedImage /\ ~DebugOn
     /\ StrictEq(req.body.mimeType, Str("image/heic")) /\ pc # "received") =>
    /\ validation.isValid
    /\ Len(fetches) = 1

(* ------------------------------------------------------------------ *)
(* C16: the stages run in the order method check, token check, body     *)
(* validation, provider call, response: a provider request is issued    *)
(* only for a POST whose token matched and whose body the validator     *)
(* reported valid, each stage at most once and after the one before     *)
(* it; and once the request has errored nothing but the error log and   *)
(* the one error response follows.                                     *)
(* ------------------------------------------------------------------ *)
Stages == {"validateAppToken", "validateRequestBody", "setTimeout", "fetch"}

Occurrences(name) == {i \in 1..Len(trace) : trace[i].ev = name}

Precedes(a, b) ==
  \A j \in Occurrences(b) : \E i \in Occurrences(a) : i < j

Errored ==
  \/ Happened("catch")
  \/ \E k \in 1..Len(sent) : sent[k].status >= 400

C16_StageOrder ==
  /\ \A name \in Stages : Cardinality(Occurrences(name)) <= 1
  /\ Happened("validateAppToken") => IsPost
  /\ Happened("validateRequestBody") => (TokenMatches /\ validation.ran)
  /\ (Happened("fetch") \/ fetches # <<>>) =>
       (IsPost /\ TokenMatches /\ validation.ran /\ validation.isValid)
  /\ Precedes("validateAppToken", "validateRequestBody")
  /\ Precedes("validateRequestBody", "fetch")
  /\ \A i \in Occurrences("catch") : \A j \in (i + 1)..Len(trace) :
       trace[j].ev \in {"console.error: Unexpected error", "console.error", "res.json"}
  /\ Errored =>
       /\ Done /\ ~ENABLED Next
       /\ Len(sent) = 1 /\ sent[1].status >= 400
       /\ "success" \in DOMAIN sent[1].body /\ ~sent[1].body.success
  /\ \A k \in 1..Len(sent) :
       ("success" \in DOMAIN sent[k].body /\ sent[k].body.success) =>
         (Happened("fetch") /\ upstream.ok /\ ~Errored)

\* A request went through every stage and was answered 200.
C16_Witness ==
  /\ Done /\ Len(sent) = 1 /\ sent[1].status = 200
  /\ \A name \in Stages : Happened(name)
  /\ ~Errored

(* ------------------------------------------------------------------ *)
(* C17 as stated: every POST that reaches the provider call is          *)
(* eventually answered, whether the provider stalls before its          *)
(* response headers arrive or while its response body is being read.   *)
(* ------------------------------------------------------------------ *)
C17_AsStated == (pc = "fetching" \/ pc = "readingBody") ~> (pc = "done")

(* ------------------------------------------------------------------ *)
(* C18 as stated: for every request that ends in an error response      *)
(* (405, 401, 400 or 500), the error context (code, message, details,   *)
(* stack) is logged before the response is sent.                       *)
(* ------------------------------------------------------------------ *)
IsErrorLog(e) ==
  /\ e.ev = "console.error"
  /\ {"code", "message", "details", "stack"} \subseteq DOMAIN e

C18_AsStated ==
  (Done /\ Len(sent) = 1 /\ sent[1].status \in {405, 401, 400, 500}) =>
    \E i \in 1..Len(trace) :
      /\ IsErrorLog(trace[i])
      /\ \A j \in Occurrences("res.json") : i < j

(* ------------------------------------------------------------------ *)
(* C19 as stated: for an object body without debugMode true, errors     *)
(* holds one message for each violated condition (missing imageData,    *)
(* missing mimeType, invalid characters, size exceeded, too small,      *)
(* empty after cleaning, length not a multiple of 4, unsupported        *)
(* mimeType) in check order, and the 400 response carries that list as  *)
(* error.details; a missing or non-object body gets the single message  *)
(* 'Request body must be a valid JSON object'.                         *)
(* ------------------------------------------------------------------ *)
Violation(holds, text) == IF holds THEN <<text>> ELSE <<>>

TextsOf(errors) == [i \in 1..Len(errors) |-> errors[i].text]

\* The messages of the violated conditions, the conditions on the image
\* string being examined when 'examined' holds.
Violations(body, examined) ==
  LET image == Field(body, "imageData")
      mime == Field(body, "mimeType")
      cleaned == IF IsB64(image) THEN StripWhitespace(image.s) ELSE <<>>
      n == StrLength(cleaned)
  IN Violation(~Truthy(image), "imageData field is required")
     \o Violation(~Truthy(mime), "mimeType field is required")
     \o Violation(examined /\ ~base64Pattern(cleaned),
                  "imageData contains invalid base64 characters")
     \o Violation(examined /\ 3 * n > 4 * (20 * 1024 * 1024),
                  "Image size exceeds maximum allowed size")
     \o Violation(examined /\ 3 * n < 4 * 100,
                  "Image data appears to be too small or invalid")
     \o Violation(examined /\ n = 0, "imageData is empty after cleaning")
     \o Violation(examined /\ n % 4 # 0,
                  "imageData length is not valid base64 (must be multiple of 4)")
     \o Violation(Truthy(mime) /\ ~(mime.t = "string" /\ "a" \in DOMAIN mime
                                     /\ mime.a \in {"image/jpeg", "image/jpg",
                                                    "image/png", "image/webp"}),
                  "Unsupported image type")

Accumulated(examined) ==
  /\ validation.ran
  /\ IF Truthy(req.body) /\ IsObjectBody(req.body)
     THEN TextsOf(validation.errors) = Violations(req.body, examined)
     ELSE TextsOf(validation.errors) = <<"Request body must be a valid JSON object">>
  /\ validation.isValid <=> validation.errors = <<>>
  /\ ~validation.isValid =>
       /\ SentError(400, "VAL_001")
       /\ HasDetails
       /\ sent[1].body.error.details = ArrayOf(validation.errors)

C19_AsStated ==
  (pc # "received" /\ ~DebugOn) => Accumulated(IsB64(Field(req.body, "imageData")))

(* ------------------------------------------------------------------ *)
(* C19, amended: for an object body without debugMode true, errors      *)
(* holds, in check order, the message of each missing field, then, only *)
(* when imageData is a non-empty string, one message for each violated  *)
(* condition on it (invalid characters, size exceeded, too small, empty *)
(* after cleaning, length not a multiple of 4), then the unsupported    *)
(* mimeType message; an empty-string imageData is reported as missing   *)
(* only.  The 400 response carries the whole list as error.details; a   *)
(* missing or non-object body gets the single message 'Request body     *)
(* must be a valid JSON object'.                                       *)
(* ------------------------------------------------------------------ *)
C19_Accumulates ==
  (pc # "received" /\ ~DebugOn) =>
    Accumulated(IsB64(Field(req.body, "imageData")) /\ Truthy(Field(req.body, "imageData")))

\* Four violations at once were all returned in one 400 response.
C19_Witness ==
  /\ Done /\ ~DebugOn
  /\ SentError(400, "VAL_001")
  /\ Len(validation.errors) >= 4
  /\ HasDetails
  /\ sent[1].body.error.details = ArrayOf(validation.errors)

(* ------------------------------------------------------------------ *)
(* C20 as stated: whenever validateRequestBody reports valid for a body *)
(* without debugMode true, imageData is a string whose                  *)
(* whitespace-stripped form is non-empty, matches the base64 pattern,   *)
(* has a length that is a multiple of 4 and an estimated size within    *)
(* [100 bytes, 20 MiB], and mimeType is in the allowed set; no body     *)
(* with a non-string imageData is reported valid.                      *)
(* ------------------------------------------------------------------ *)
C20_AsStated ==
  (pc = "validated" /\ validation.isValid /\ ~DebugOn) =>
    /\ WellFormedImage
    /\ LET mime == Field(req.body, "mimeType")
       IN /\ mime.t = "string" /\ "a" \in DOMAIN mime
          /\ mime.a \in {"image/jpeg", "image/jpg", "image/png", "image/webp"}

(* ------------------------------------------------------------------ *)
(* C21 as stated: for every POST that passes authentication and whose   *)
(* body the validator reports valid (debugMode included), the handler   *)
(* issues exactly one outbound provider request before responding:      *)
(* never zero and never more than one.                                 *)
(* ------------------------------------------------------------------ *)
PassedValidation ==
  /\ IsPost /\ TokenMatches
  /\ pc # "received"
  /\ validation.ran /\ validation.isValid

C21_AsStated ==
  PassedValidation =>
    /\ Len(fetches) = 1
    /\ Cardinality(Occurrences("fetch")) = 1
    /\ \A j \in Occurrences("res.json") : \E i \in Occurrences("fetch") : i < j

====
